---- MODULE Spec2Model ----
(***************************************************************************)
(* TechFix Advisor: the form validation, submission and persistence logic, *)
(* the card filter and search, the image zoom and the error reporting of   *)
(* techfix-advisor/JS/script.js, as the browser runs it.                   *)
(*                                                                         *)
(* script.js declares most of its functions twice.  Function declarations  *)
(* are hoisted, so the LATER declaration of each name is the one every     *)
(* caller reaches; the operators below are translated from those effective *)
(* declarations (lines 967-1669) unless stated otherwise.                  *)
(*                                                                         *)
(* Strings are sequences of one-character strings, so that length, trim,   *)
(* the e-mail regular expression and JSON encoding are computed.           *)
(* The page's markup is not part of the script: the layout of the form    *)
(* (which fields carry `required`, which fields share a parent element,    *)
(* the form's id attribute) is drawn from a set of layouts in Init.        *)
(***************************************************************************)
EXTENDS Integers, Sequences, FiniteSets, TLC

VARIABLES
    layout,          \* the markup the script runs against (fixed per behaviour)
    value,           \* field.value of each form field
    errorClass,      \* whether field.classList contains 'error'
    messages,        \* the .error-message nodes that follow each field, in document order
    storage,         \* localStorage: a function from the keys present to their strings
    persistenceWired,\* addFormDataPersistence registered its listeners on the form
    submitDisabled,  \* submitButton.disabled
    submitLabel,     \* submitButton.textContent
    timers,          \* pending setTimeout callbacks, in registration order
    successBanners,  \* number of .success-message nodes in the document
    locationHref,    \* window.location.href
    lastEvent,       \* the kind of event whose handlers ran last
    probe,           \* argument of a direct function call (validator specifications)
    probeResult,     \* what that call returned
    cards,           \* the searchable cards of the markup (fixed per behaviour)
    cardState,       \* each card's style.display, 'fade-in' class and observer registration
    filterLinks,     \* textContent of the '.filters a' links (fixed per behaviour)
    activeFilter,    \* the filter links whose classList contains 'active'
    searchValue,     \* value of the search input
    menuShown,       \* whether the list inside nav carries the class 'show'
    present,         \* the optional elements the markup contains (fixed per behaviour)
    uncaught,        \* number of uncaught errors raised so far
    errorBanners,    \* number of "Something went wrong" nodes in the document
    modals,          \* number of image-zoom modals in the document
    bodyOverflow     \* document.body.style.overflow

vars == <<layout, value, errorClass, messages, storage, persistenceWired,
          submitDisabled, submitLabel, timers, successBanners, locationHref,
          lastEvent, probe, probeResult,
          cards, cardState, filterLinks, activeFilter, searchValue, menuShown,
          present, uncaught, errorBanners, modals, bodyOverflow>>

\* the image-zoom modals and the scrolling they block
zoomVars == <<modals, bodyOverflow>>

\* the cards, the filter controls, the error reporting and the modals
siteVars == <<cards, cardState, filterLinks, activeFilter, searchValue, menuShown,
              present, uncaught, errorBanners, modals, bodyOverflow>>

\* the form's state apart from the position
formVarsButEvent == <<layout, value, errorClass, messages, storage, persistenceWired,
                      submitDisabled, submitLabel, timers, successBanners, locationHref>>

formVars == <<layout, value, errorClass, messages, storage, persistenceWired,
              submitDisabled, submitLabel, timers, successBanners, locationHref,
              lastEvent>>

----------------------------------------------------------------------------
(* Bounds of the model *)

\* longest e-mail string handed to isValidEmail / validateField directly
MaxEmailLen == 6
\* longest name / device / question string handed to validateField directly
MaxTextLen == 11
\* most setTimeout callbacks pending at once
MaxTimers == 1
\* longest string typed into the search input
MaxQueryLen == 2
\* most uncaught errors raised by event handlers of one document
MaxErrors == 2
\* most .error-message nodes that follow one field
MaxMessages == 2
\* most setTimeout callbacks pending at once where submit events arrive during
\* a submission's delay
MaxTimersResubmit == 2
\* most image-zoom modals open at once
MaxModals == 2

----------------------------------------------------------------------------
(* Strings *)

\* the characters String.prototype.trim removes and the regex class \s matches
WhiteSpace == {" ", "\n"}

BoundedSeq(S, n) == UNION {[1..k -> S] : k \in 0..n}

RECURSIVE TrimStart(_)
TrimStart(s) ==
    IF s # <<>> /\ Head(s) \in WhiteSpace THEN TrimStart(Tail(s)) ELSE s

RECURSIVE TrimEnd(_)
TrimEnd(s) ==
    IF s # <<>> /\ s[Len(s)] \in WhiteSpace
    THEN TrimEnd(SubSeq(s, 1, Len(s) - 1))
    ELSE s

\* String.prototype.trim, as validateField applies it to field.value
Trim(s) == TrimEnd(TrimStart(s))

----------------------------------------------------------------------------
(* Field validation *)

\* a character of the regex class [^\s@]
NotSpaceNotAt(c) == c \notin WhiteSpace /\ c # "@"

AllNotSpaceNotAt(s, from, to) == \A k \in from..to : NotSpaceNotAt(s[k])

\* a variant that lets the top-level domain be empty: /^[^\s@]+@[^\s@]+\.[^\s@]*$/
isValidEmailEmptyTld(email) ==
    \E at \in 2..Len(email), dot \in 1..Len(email) :
        /\ email[at] = "@"
        /\ email[dot] = "."
        /\ at + 1 < dot
        /\ AllNotSpaceNotAt(email, 1, at - 1)
        /\ AllNotSpaceNotAt(email, at + 1, dot - 1)
        /\ AllNotSpaceNotAt(email, dot + 1, Len(email))

\* /^[^\s@]+@[^\s@]+\.[^\s@]+$/.test(email): some split of the whole string into
\* a non-empty run, '@', a non-empty run, '.', a non-empty run
isValidEmail(email) ==
    \E at \in 2..Len(email), dot \in 1..Len(email) :
        /\ email[at] = "@"
        /\ email[dot] = "."
        /\ at + 1 < dot
        /\ dot < Len(email)
        /\ AllNotSpaceNotAt(email, 1, at - 1)
        /\ AllNotSpaceNotAt(email, at + 1, dot - 1)
        /\ AllNotSpaceNotAt(email, dot + 1, Len(email))

NameMinLength == 2
QuestionMinLength == 10

Valid == [isValid |-> TRUE, errorMessage |-> ""]
Invalid(msg) == [isValid |-> FALSE, errorMessage |-> msg]

\* a variant with the length comparisons off by one (<= instead of <)
FieldRuleOffByOne(fieldName, fieldValue) ==
    CASE fieldName = "name" ->
            IF fieldValue # <<>> /\ Len(fieldValue) <= NameMinLength
            THEN Invalid("Name must be at least 2 characters long")
            ELSE Valid
      [] fieldName = "email" ->
            IF fieldValue # <<>> /\ ~isValidEmail(fieldValue)
            THEN Invalid("Please enter a valid email address")
            ELSE Valid
      [] fieldName = "device" ->
            IF fieldValue = <<>>
            THEN Invalid("Please select a device type")
            ELSE Valid
      [] fieldName = "question" ->
            IF fieldValue = <<>>
            THEN Invalid("Please describe your issue")
            ELSE IF Len(fieldValue) <= QuestionMinLength
                 THEN Invalid("Please provide more details (at least 10 characters)")
                 ELSE Valid
      [] OTHER -> Valid

\* the switch of validateField over field.name, on the trimmed value
FieldRule(fieldName, fieldValue) ==
    CASE fieldName = "name" ->
            IF fieldValue # <<>> /\ Len(fieldValue) < NameMinLength
            THEN Invalid("Name must be at least 2 characters long")
            ELSE Valid
      [] fieldName = "email" ->
            IF fieldValue # <<>> /\ ~isValidEmail(fieldValue)
            THEN Invalid("Please enter a valid email address")
            ELSE Valid
      [] fieldName = "device" ->
            IF fieldValue = <<>>
            THEN Invalid("Please select a device type")
            ELSE Valid
      [] fieldName = "question" ->
            IF fieldValue = <<>>
            THEN Invalid("Please describe your issue")
            ELSE IF Len(fieldValue) < QuestionMinLength
                 THEN Invalid("Please provide more details (at least 10 characters)")
                 ELSE Valid
      [] OTHER -> Valid

\* what validateField computes from field.name and field.value (its DOM
\* effects are in validateField below)
validateFieldResult(fieldName, rawValue) == FieldRule(fieldName, Trim(rawValue))

----------------------------------------------------------------------------
(* The form *)

\* the named fields of the question form, in document order
FieldOrder == <<"name", "email", "device", "question">>
Fields == {FieldOrder[i] : i \in 1..Len(FieldOrder)}

\* the name attribute of each field, as characters
NameChars(f) ==
    CASE f = "name"     -> <<"n", "a", "m", "e">>
      [] f = "email"    -> <<"e", "m", "a", "i", "l">>
      [] f = "device"   -> <<"d", "e", "v", "i", "c", "e">>
      [] f = "question" -> <<"q", "u", "e", "s", "t", "i", "o", "n">>

\* The values a user types or selects in the page specification: per field the
\* empty value and values on both sides of its validator (every string up to a
\* length is tried on the validators in SpecValidators).  The ten-character
\* question holds the character JSON has to escape.
Phone == <<"p", "h", "o", "n", "e">>
ItsSlow == <<"i", "t", "'", "s", " ", "s", "l", "o", "w">>
QuotedItSlows == <<"\"", "i", "t", "\"", " ", "s", "l", "o", "w", "s">>
NameValues == {<<>>, <<"a">>}
EmailValues == {<<>>, <<"a", " ", "b", "@", "c">>}
DeviceValues == {<<>>, Phone}
QuestionValues == {<<>>, ItsSlow, QuotedItSlows}

FieldValues(f) ==
    CASE f = "name"     -> NameValues
      [] f = "email"    -> EmailValues
      [] f = "device"   -> DeviceValues
      [] f = "question" -> QuestionValues

\* the value every field has in the markup; form.reset() restores it
DefaultValue == [f \in Fields |-> <<>>]

----------------------------------------------------------------------------
(* JSON, for objects whose members are strings *)

RECURSIVE Quote(_)
\* the characters of a string inside its JSON quotes: '"' and '\' are escaped
Quote(s) ==
    IF s = <<>> THEN <<>>
    ELSE (IF Head(s) \in {"\"", "\\"} THEN <<"\\", Head(s)>> ELSE <<Head(s)>>)
         \o Quote(Tail(s))

JSONString(s) == <<"\"">> \o Quote(s) \o <<"\"">>

RECURSIVE JSONMembers(_)
JSONMembers(entries) ==
    IF entries = <<>> THEN <<>>
    ELSE JSONString(Head(entries)[1]) \o <<":">> \o JSONString(Head(entries)[2])
         \o (IF Tail(entries) = <<>> THEN <<>> ELSE <<",">> \o JSONMembers(Tail(entries)))

\* JSON.stringify(data) for an object given as its <<key, value>> entries in
\* insertion order
JSONstringify(entries) == <<"{">> \o JSONMembers(entries) \o <<"}">>

SyntaxError == [ok |-> FALSE, entries |-> <<>>]

RECURSIVE ReadString(_, _, _)
\* reads the characters of a JSON string whose opening quote is at i - 1
ReadString(s, i, acc) ==
    IF i > Len(s) THEN [ok |-> FALSE, val |-> acc, next |-> i]
    ELSE IF s[i] = "\"" THEN [ok |-> TRUE, val |-> acc, next |-> i + 1]
    ELSE IF s[i] = "\\"
         THEN IF i + 1 <= Len(s) /\ s[i + 1] \in {"\"", "\\"}
              THEN ReadString(s, i + 2, Append(acc, s[i + 1]))
              ELSE [ok |-> FALSE, val |-> acc, next |-> i]
    ELSE ReadString(s, i + 1, Append(acc, s[i]))

ParseString(s, i) ==
    IF i <= Len(s) /\ s[i] = "\"" THEN ReadString(s, i + 1, <<>>)
    ELSE [ok |-> FALSE, val |-> <<>>, next |-> i]

RECURSIVE ParseMembers(_, _, _)
\* reads  "key":"value"  members from position i up to the closing brace
ParseMembers(s, i, acc) ==
    LET k == ParseString(s, i) IN
    IF ~k.ok \/ k.next > Len(s) \/ s[k.next] # ":" THEN SyntaxError
    ELSE LET v == ParseString(s, k.next + 1) IN
         IF ~v.ok \/ v.next > Len(s) THEN SyntaxError
         ELSE IF s[v.next] = "}"
              THEN IF v.next = Len(s)
                   THEN [ok |-> TRUE, entries |-> Append(acc, <<k.val, v.val>>)]
                   ELSE SyntaxError
         ELSE IF s[v.next] = ","
              THEN ParseMembers(s, v.next + 1, Append(acc, <<k.val, v.val>>))
         ELSE SyntaxError

\* JSON.parse(text): the <<key, value>> entries of the object, or a SyntaxError
JSONparse(s) ==
    IF Len(s) < 2 \/ s[1] # "{" THEN SyntaxError
    ELSE IF s = <<"{", "}">> THEN [ok |-> TRUE, entries |-> <<>>]
    ELSE ParseMembers(s, 2, <<>>)

----------------------------------------------------------------------------
(* The markup the script is run against *)

\* each field in a wrapper element of its own / all fields children of the form
SeparateParents == [f \in Fields |-> f]
SharedParent == [f \in Fields |-> "form"]
\* the device field in a wrapper element "row" that is itself a child of the
\* form, the other fields children of the form
NestedParents == [f \in Fields |-> IF f = "device" THEN "row" ELSE "form"]

\* element `inner` is `outer` or a descendant of it
Within(inner, outer) == inner = outer \/ (inner = "row" /\ outer = "form")

\* required: the fields that carry the `required` attribute (the script's
\*           comments call name and email optional, device and question required);
\* parent:   the parent element of each field;
\* id:       the form's id attribute ("" when it has none).
\* Two markups: a bare form whose fields are its children and carry no
\* attribute, and one with a wrapper per field and the required attributes.
Layouts ==
    {[required |-> {}, parent |-> SharedParent, id |-> ""],
     [required |-> {"device", "question"}, parent |-> SeparateParents, id |-> ""]}

\* a third markup: the required attributes and a wrapper around the device
\* field only
NestedLayout == [required |-> {"device", "question"}, parent |-> NestedParents, id |-> ""]

\* const formId = form.id || 'techfix-form'
formId(lay) == IF lay.id # "" THEN lay.id ELSE "techfix-form"

\* submitButton.textContent in the markup, and after
\* innerHTML = '<div class="spinner"></div> Submitting...'
OriginalLabel == "Submit"
BusyLabel == " Submitting..."

----------------------------------------------------------------------------
(* localStorage *)

EmptyStorage == [k \in {} |-> <<>>]
hasItem(stor, key) == key \in DOMAIN stor
setItem(stor, key, text) ==
    [k \in DOMAIN stor \cup {key} |-> IF k = key THEN text ELSE stor[k]]
removeItem(stor, key) == [k \in DOMAIN stor \ {key} |-> stor[k]]

----------------------------------------------------------------------------
(* Error display: dom is [errorClass, messages] *)

\* field.parentNode.querySelector('.error-message'): the first message node,
\* in document order, among the descendants of the parent of `field`; 0 when
\* there is none
FirstMessageInParent(dom, lay, field) ==
    LET with == {i \in 1..Len(FieldOrder) :
                    /\ Within(lay.parent[FieldOrder[i]], lay.parent[field])
                    /\ dom.messages[FieldOrder[i]] # <<>>}
    IN IF with = {} THEN 0 ELSE CHOOSE i \in with : \A j \in with : i <= j

clearErrorMessage(dom, lay, field) ==
    LET i == FirstMessageInParent(dom, lay, field)
        msgs == IF i = 0 THEN dom.messages
                ELSE [dom.messages EXCEPT ![FieldOrder[i]] = Tail(@)]
    IN [errorClass |-> [dom.errorClass EXCEPT ![field] = FALSE],
        messages   |-> msgs]

\* the new node is inserted before field.nextSibling: first after the field
showErrorMessage(dom, lay, field, message) ==
    LET d == clearErrorMessage(dom, lay, field)
    IN [d EXCEPT !.messages[field] = <<message>> \o @]

\* validateField(field): [dom, isValid]
validateField(dom, lay, vals, field) ==
    LET d0 == [dom EXCEPT !.errorClass[field] = FALSE]
        r  == validateFieldResult(field, vals[field])
    IN IF r.isValid
       THEN [dom |-> d0, isValid |-> TRUE]
       ELSE [dom |-> [showErrorMessage(d0, lay, field, r.errorMessage)
                        EXCEPT !.errorClass[field] = TRUE],
             isValid |-> FALSE]

\* form.querySelectorAll('input[required], select[required], textarea[required]')
RequiredInputs(lay) == SelectSeq(FieldOrder, LAMBDA f : f \in lay.required)

\* the fields validateForm hands to validateField, in call order
FieldsValidatedOnSubmit(lay) == RequiredInputs(lay) \o <<"question", "device">>

RECURSIVE ValidateEach(_, _, _, _, _)
ValidateEach(dom, lay, vals, fields, isFormValid) ==
    IF fields = <<>> THEN [dom |-> dom, isFormValid |-> isFormValid]
    ELSE LET r == validateField(dom, lay, vals, Head(fields))
         IN ValidateEach(r.dom, lay, vals, Tail(fields), isFormValid /\ r.isValid)

\* validateForm(form): [dom, isFormValid]
validateForm(dom, lay, vals) ==
    ValidateEach(dom, lay, vals, FieldsValidatedOnSubmit(lay), TRUE)

----------------------------------------------------------------------------
(* Persistence *)

\* the entries of new FormData(form): every named field, in document order
FormDataEntries(vals) ==
    [i \in 1..Len(FieldOrder) |-> <<NameChars(FieldOrder[i]), vals[FieldOrder[i]]>>]

\* a variant that keeps an entry already stored (first write wins)
saveFormDataKeepFirst(stor, vals, key) ==
    IF hasItem(stor, key) THEN stor
    ELSE setItem(stor, key, JSONstringify(FormDataEntries(vals)))

saveFormData(stor, vals, key) ==
    setItem(stor, key, JSONstringify(FormDataEntries(vals)))

clearFormData(stor, key) == removeItem(stor, key)

\* form.querySelector(`[name="${key}"]`): the field of that name, or "" for null
FieldNamed(key) ==
    IF \E f \in Fields : NameChars(f) = key
    THEN CHOOSE f \in Fields : NameChars(f) = key
    ELSE ""

\* a variant that stops after the first key
PopulateFieldsFirstKey(vals, entries) ==
    IF entries = <<>> THEN vals
    ELSE LET field == IF \E f \in Fields : NameChars(f) = Head(entries)[1]
                      THEN CHOOSE f \in Fields : NameChars(f) = Head(entries)[1]
                      ELSE ""
         IN IF field # "" THEN [vals EXCEPT ![field] = Head(entries)[2]] ELSE vals

RECURSIVE PopulateFields(_, _)
\* Object.keys(data).forEach(key => { ... field.value = data[key] ... })
PopulateFields(vals, entries) ==
    IF entries = <<>> THEN vals
    ELSE LET field == FieldNamed(Head(entries)[1])
         IN PopulateFields(IF field # "" THEN [vals EXCEPT ![field] = Head(entries)[2]]
                                          ELSE vals,
                           Tail(entries))

\* loadFormData(form, formId): [threw, value]
loadFormData(stor, vals, key) ==
    IF ~hasItem(stor, key) \/ stor[key] = <<>>
    THEN [threw |-> FALSE, value |-> vals]
    ELSE LET data == JSONparse(stor[key])
         IN IF data.ok
            THEN [threw |-> FALSE, value |-> PopulateFields(vals, data.entries)]
            ELSE [threw |-> TRUE, value |-> vals]

----------------------------------------------------------------------------
(* Cards, filters and search *)

\* String.prototype.includes
Includes(s, sub) ==
    \E i \in 0..(Len(s) - Len(sub)) : SubSeq(s, i + 1, i + Len(sub)) = sub

\* the upper-case letters of the markup's texts and their lower-case forms
LowerCaseOf ==
    ("A" :> "a") @@ ("B" :> "b") @@ ("L" :> "l") @@ ("O" :> "o") @@ ("T" :> "t")

\* String.prototype.toLowerCase
toLowerCase(s) ==
    [i \in 1..Len(s) |-> IF s[i] \in DOMAIN LowerCaseOf THEN LowerCaseOf[s[i]] ELSE s[i]]

\* the literals of filterAdviceCards
labelAll == <<"a", "l", "l">>
labelBuyingAdvice == <<"b", "u", "y", "i", "n", "g", " ", "a", "d", "v", "i", "c", "e">>
labelTroubleshooting ==
    <<"t", "r", "o", "u", "b", "l", "e", "s", "h", "o", "o", "t", "i", "n", "g">>
labelTechLiteracy == <<"t", "e", "c", "h", " ", "l", "i", "t", "e", "r", "a", "c", "y">>
tagLaptop == <<"l", "a", "p", "t", "o", "p">>
tagPhone == <<"p", "h", "o", "n", "e">>
tagTechliteracy == <<"t", "e", "c", "h", "l", "i", "t", "e", "r", "a", "c", "y">>
tagTroubleshooting == labelTroubleshooting
fadeInClass == <<"f", "a", "d", "e", "-", "i", "n">>

\* card.className: the classes of the markup, then 'fade-in' once
\* classList.add('fade-in') has put it there
className(card, st) ==
    IF ~st.fadeIn THEN card.className
    ELSE IF card.className = <<>> THEN fadeInClass
    ELSE card.className \o <<" ">> \o fadeInClass

\* a variant whose 'buying advice' forgets the cards tagged phone
shouldShowNoPhone(filter, cardClass) ==
    \/ filter = labelBuyingAdvice /\ Includes(cardClass, tagLaptop)
    \/ filter = labelTroubleshooting /\ Includes(cardClass, tagTroubleshooting)
    \/ filter = labelTechLiteracy /\ Includes(cardClass, tagTechliteracy)

\* const shouldShow = ...
shouldShow(filter, cardClass) ==
    \/ filter = labelBuyingAdvice /\ Includes(cardClass, tagLaptop)
    \/ filter = labelBuyingAdvice /\ Includes(cardClass, tagPhone)
    \/ filter = labelTroubleshooting /\ Includes(cardClass, tagTroubleshooting)
    \/ filter = labelTechLiteracy /\ Includes(cardClass, tagTechliteracy)

\* document.querySelectorAll('.advicecards > div')
adviceCards(cs) == {i \in 1..Len(cs) : cs[i].list = "advicecards"}

\* a variant without the 'all' pseudo-category
filterAdviceCardsNoAll(filter, cs, st) ==
    [i \in 1..Len(cs) |->
        IF i \notin adviceCards(cs) THEN st[i]
        ELSE IF shouldShow(filter, className(cs[i], st[i]))
             THEN [st[i] EXCEPT !.display = "block", !.fadeIn = TRUE]
             ELSE [st[i] EXCEPT !.display = "none", !.fadeIn = FALSE]]

\* a variant that toggles the 'fade-in' class of the cards it shows
filterAdviceCardsToggle(filter, cs, st) ==
    [i \in 1..Len(cs) |->
        IF i \notin adviceCards(cs) THEN st[i]
        ELSE IF shouldShow(filter, className(cs[i], st[i])) \/ filter = labelAll
             THEN [st[i] EXCEPT !.display = "block", !.fadeIn = ~@]
             ELSE [st[i] EXCEPT !.display = "none", !.fadeIn = FALSE]]

\* filterAdviceCards(filter, cards): the state of every card afterwards
filterAdviceCards(filter, cs, st) ==
    [i \in 1..Len(cs) |->
        IF i \notin adviceCards(cs) THEN st[i]
        ELSE IF shouldShow(filter, className(cs[i], st[i])) \/ filter = labelAll
             THEN [st[i] EXCEPT !.display = "block", !.fadeIn = TRUE]
             ELSE [st[i] EXCEPT !.display = "none", !.fadeIn = FALSE]]

\* a variant that compares the card's text as written
searchContentCaseSensitive(query, cs, st) ==
    [i \in 1..Len(cs) |->
        IF Includes(cs[i].textContent, query) \/ query = <<>>
        THEN [st[i] EXCEPT !.display = "block"]
        ELSE [st[i] EXCEPT !.display = "none"]]

\* searchContent(query): '.advicecards > div, .cards > div' are all the cards
searchContent(query, cs, st) ==
    [i \in 1..Len(cs) |->
        IF Includes(toLowerCase(cs[i].textContent), query) \/ query = <<>>
        THEN [st[i] EXCEPT !.display = "block"]
        ELSE [st[i] EXCEPT !.display = "none"]]

\* the cards as the document is parsed: no inline display, no 'fade-in', and
\* initializeAnimations observes every card
FreshCards(cs) ==
    [i \in 1..Len(cs) |-> [display |-> "", fadeIn |-> FALSE, observed |-> TRUE]]

\* the optional elements a page may contain, beside the containers nav and header
OptionalElements == {"form", "submitButton", "navUl", "navLinkHref", "searchInput"}

\* initializeNavigation: href.startsWith on a nav link without href attribute,
\* then createMobileMenuToggle: header.appendChild on a page without header
navigationThrows(pres) == "navLinkHref" \notin pres \/ "header" \notin pres

\* initializeFormValidation has registered the blur, input and submit listeners:
\* the page holds a form and no earlier initializer threw
validationWired(pres) == "form" \in pres /\ ~navigationThrows(pres)

\* initializeFilters: filterLinks[0].classList.add('active'), unless an earlier
\* initializer threw
ActiveAtLoad(links, pres) ==
    IF links # <<>> /\ ~navigationThrows(pres) THEN {1} ELSE {}

----------------------------------------------------------------------------
(* Timers *)

SubmitTimer(originalText) == [kind |-> "submit", originalText |-> originalText]
BannerTimer == [kind |-> "banner", originalText |-> ""]

\* index of the oldest pending timer of a kind; 0 when there is none
FirstTimer(ts, kind) ==
    LET of == {i \in 1..Len(ts) : ts[i].kind = kind}
    IN IF of = {} THEN 0 ELSE CHOOSE i \in of : \A j \in of : i <= j

RemoveAt(ts, i) == SubSeq(ts, 1, i - 1) \o SubSeq(ts, i + 1, Len(ts))

\* a variant that never registers the delay timer
submitFormNoTimer(label, ts) ==
    [disabled |-> TRUE,
     label    |-> BusyLabel,
     timers   |-> ts]

\* submitForm(form) up to its setTimeout call: [disabled, label, timers]
submitForm(label, ts) ==
    [disabled |-> TRUE,
     label    |-> BusyLabel,
     timers   |-> Append(ts, SubmitTimer(label))]

----------------------------------------------------------------------------
(* Events *)

\* window.location.href while the page is shown
PageHref == [scheme |-> "https", recipients |-> <<>>]

NoProbe == [fn |-> "none", fieldName |-> "", value |-> <<>>]
NoResult == [returned |-> FALSE, isValid |-> FALSE]

\* the page once the DOMContentLoaded handler has run against markup `lay`
\* with localStorage `stor`: initializeFormValidation registers its listeners,
\* then addFormDataPersistence loads the snapshot and registers its own
PageLoaded(lay, stor) ==
    LET loaded == loadFormData(stor, DefaultValue, formId(lay))
    IN [value            |-> loaded.value,
        persistenceWired |-> ~loaded.threw]

\* snapshots another page load of the site may have left under the form's key
InitSnapshots == {<< <<NameChars("device"), Phone>>,
                     <<NameChars("question"), ItsSlow>> >>}

InitStorages(lay) ==
    {EmptyStorage} \cup
    {setItem(EmptyStorage, formId(lay), JSONstringify(snap)) : snap \in InitSnapshots}

\* the two window.addEventListener('error', ...) statements of the script; both
\* run when the script is evaluated, so both listeners are registered
errorListeners == {"first registration", "second registration"}

\* an uncaught error is dispatched to every registered listener, and each
\* appends its own banner to document.body
BannersAfterError(banners) == banners + Cardinality(errorListeners)

\* the DOMContentLoaded handler run against markup `lay` with optional elements
\* `pres` and localStorage `stor`.  The initializers run in order and the first
\* uncaught error ends the handler: initializeNavigation throws on a nav link
\* without href, addFormDataPersistence (the last step) on a snapshot that
\* JSON.parse or Object.keys rejects.
DOMContentLoaded(lay, stor, pres) ==
    LET formLoaded == ~navigationThrows(pres) /\ "form" \in pres
        page == PageLoaded(lay, stor)
    IN [value            |-> IF formLoaded THEN page.value ELSE DefaultValue,
        persistenceWired |-> formLoaded /\ page.persistenceWired,
        threw            |-> navigationThrows(pres)
                             \/ (formLoaded /\ ~page.persistenceWired)]

\* the page that holds the question form: no cards, no filter controls
FormPage == {"header", "form", "submitButton", "navUl", "navLinkHref"}

NoCards ==
    /\ cards = <<>>
    /\ cardState = FreshCards(<<>>)
    /\ filterLinks = <<>>
    /\ activeFilter = {}
    /\ searchValue = <<>>
    /\ menuShown = FALSE

FreshDom ==
    /\ errorClass = [f \in Fields |-> FALSE]
    /\ messages = [f \in Fields |-> <<>>]
    /\ submitDisabled = FALSE
    /\ submitLabel = OriginalLabel
    /\ timers = <<>>
    /\ successBanners = 0
    /\ locationHref = PageHref
    /\ modals = 0
    /\ bodyOverflow = ""

Init ==
    /\ layout \in Layouts
    /\ storage \in InitStorages(layout)
    /\ LET page == PageLoaded(layout, storage)
       IN /\ value = page.value
          /\ persistenceWired = page.persistenceWired
    /\ FreshDom
    /\ lastEvent = "load"
    /\ probe = NoProbe
    /\ probeResult = NoResult
    /\ NoCards
    /\ present = FormPage
    /\ uncaught = 0
    /\ errorBanners = 0

\* the user reloads the page: the document is rebuilt from the markup, pending
\* timers die with the old document, localStorage survives
Reload ==
    /\ LET page == DOMContentLoaded(layout, storage, present)
       IN /\ value' = page.value
          /\ persistenceWired' = page.persistenceWired
          /\ uncaught' = IF page.threw THEN 1 ELSE 0
          /\ errorBanners' = IF page.threw THEN BannersAfterError(0) ELSE 0
    /\ cardState' = FreshCards(cards)
    /\ activeFilter' = ActiveAtLoad(filterLinks, present)
    /\ searchValue' = <<>>
    /\ menuShown' = FALSE
    /\ errorClass' = [f \in Fields |-> FALSE]
    /\ messages' = [f \in Fields |-> <<>>]
    /\ submitDisabled' = FALSE
    /\ submitLabel' = OriginalLabel
    /\ timers' = <<>>
    /\ successBanners' = 0
    /\ locationHref' = PageHref
    /\ modals' = 0
    /\ bodyOverflow' = ""
    /\ lastEvent' = "load"
    /\ UNCHANGED <<layout, storage, probe, probeResult, cards, filterLinks, present>>

\* an input event on `field`, whose value has become v: the listener of
\* initializeFormValidation runs, then the one of addFormDataPersistence
InputEvent(field, v) ==
    /\ v # value[field]
    /\ LET cleared == clearErrorMessage([errorClass |-> errorClass, messages |-> messages],
                                        layout, field)
       IN /\ errorClass' = cleared.errorClass
          /\ messages' = cleared.messages
    /\ value' = [value EXCEPT ![field] = v]
    /\ storage' = IF persistenceWired
                  THEN saveFormData(storage, value', formId(layout))
                  ELSE storage
    /\ lastEvent' = "input"
    /\ UNCHANGED <<layout, persistenceWired, submitDisabled, submitLabel, timers,
                   successBanners, locationHref, probe, probeResult>>
    /\ UNCHANGED siteVars

\* a blur event on `field`
BlurEvent(field) ==
    /\ LET r == validateField([errorClass |-> errorClass, messages |-> messages],
                              layout, value, field)
       IN /\ \A f \in Fields : Len(r.dom.messages[f]) <= MaxMessages
          /\ errorClass' = r.dom.errorClass
          /\ messages' = r.dom.messages
          /\ lastEvent' = "blur"
    /\ UNCHANGED <<layout, value, storage, persistenceWired, submitDisabled, submitLabel,
                   timers, successBanners, locationHref, probe, probeResult>>
    /\ UNCHANGED siteVars

\* a submit event on the form: the listener of initializeFormValidation runs
\* (validateForm, then submitForm if it passed), then the listener of
\* addFormDataPersistence (clearFormData).  The browser's own constraint
\* validation dispatches no submit event while a `required` field is empty.
\* A submission starts only while fewer than maxTimers callbacks are pending.
SubmitEventBounded(maxTimers) ==
    LET r == validateForm([errorClass |-> errorClass, messages |-> messages],
                          layout, value)
        s == submitForm(submitLabel, timers)
        \* form.querySelector('button[type="submit"]') is null: reading
        \* submitButton.textContent throws before submitForm has changed anything
        threw == r.isFormValid /\ "submitButton" \notin present
        started == r.isFormValid /\ ~threw
    IN /\ \A f \in layout.required : value[f] # <<>>
       /\ \A f \in Fields : Len(r.dom.messages[f]) <= MaxMessages
       /\ started => Len(timers) < maxTimers
       /\ threw => uncaught < MaxErrors
       /\ errorClass' = r.dom.errorClass
       /\ messages' = r.dom.messages
       /\ submitDisabled' = IF started THEN s.disabled ELSE submitDisabled
       /\ submitLabel' = IF started THEN s.label ELSE submitLabel
       /\ timers' = IF started THEN s.timers ELSE timers
       /\ uncaught' = IF threw THEN uncaught + 1 ELSE uncaught
       /\ errorBanners' = IF threw THEN BannersAfterError(errorBanners) ELSE errorBanners
       /\ storage' = IF persistenceWired
                     THEN clearFormData(storage, formId(layout))
                     ELSE storage
       /\ lastEvent' = "submit"
       /\ UNCHANGED <<layout, value, persistenceWired, successBanners, locationHref,
                      probe, probeResult>>
       /\ UNCHANGED <<cards, cardState, filterLinks, activeFilter, searchValue,
                      menuShown, present, zoomVars>>

SubmitEvent == SubmitEventBounded(MaxTimers)

\* the 2000 ms callback of submitForm: showSuccessMessage (which starts the
\* banner's 5000 ms timer), form.reset(), the button re-enabled and relabelled
SubmitTimeout ==
    LET i == FirstTimer(timers, "submit")
    IN /\ i # 0
       /\ successBanners' = successBanners + 1
       /\ value' = DefaultValue
       /\ submitDisabled' = FALSE
       /\ submitLabel' = timers[i].originalText
       /\ timers' = Append(RemoveAt(timers, i), BannerTimer)
       /\ lastEvent' = "submitTimeout"
       /\ UNCHANGED <<layout, errorClass, messages, storage, persistenceWired,
                      locationHref, probe, probeResult>>
       /\ UNCHANGED siteVars

\* the 5000 ms callback of showSuccessMessage: successDiv.remove().  A banner's
\* timer is due after every 2000 ms timer that was started before it.
BannerTimeout ==
    LET i == FirstTimer(timers, "banner")
        j == FirstTimer(timers, "submit")
    IN /\ i # 0
       /\ j = 0 \/ i < j
       /\ successBanners' = successBanners - 1
       /\ timers' = RemoveAt(timers, i)
       /\ lastEvent' = "bannerTimeout"
       /\ UNCHANGED <<layout, value, errorClass, messages, storage, persistenceWired,
                      submitDisabled, submitLabel, locationHref, probe, probeResult>>
       /\ UNCHANGED siteVars

Next ==
    \/ \E field \in Fields : \E v \in FieldValues(field) : InputEvent(field, v)
    \/ \E field \in Fields : BlurEvent(field)
    \/ SubmitEvent
    \/ SubmitTimeout
    \/ BannerTimeout
    \/ Reload

Spec == Init /\ [][Next]_vars

----------------------------------------------------------------------------
(* The validators called directly, on every string up to a length *)

TextAlphabet == {"a", " "}
EmailAlphabet == {"a", "@", ".", " "}

\* the addresses the documentation names: "a@b.c", and "a b@c", "a@b", "a@b.", "@b.c"
AtBDotC == <<"a", "@", "b", ".", "c">>
RejectedExamples ==
    {<<"a", " ", "b", "@", "c">>, <<"a", "@", "b">>, <<"a", "@", "b", ".">>,
     <<"@", "b", ".", "c">>}
EmailStrings == BoundedSeq(EmailAlphabet, MaxEmailLen) \cup {AtBDotC} \cup RejectedExamples

ValidateProbes ==
    [fn : {"validateField"}, fieldName : {"name", "device", "question"},
     value : BoundedSeq(TextAlphabet, MaxTextLen)]
    \cup
    [fn : {"validateField"}, fieldName : {"email"},
     value : EmailStrings]

EmailProbes ==
    [fn : {"isValidEmail"}, fieldName : {""},
     value : EmailStrings]

ProbeLayout == [required |-> {"device", "question"}, parent |-> SeparateParents, id |-> ""]

InitValidators ==
    /\ layout = ProbeLayout
    /\ storage = EmptyStorage
    /\ value = DefaultValue
    /\ persistenceWired = TRUE
    /\ FreshDom
    /\ lastEvent = "load"
    /\ probe \in ValidateProbes \cup EmailProbes
    /\ probeResult = NoResult
    /\ NoCards
    /\ present = FormPage
    /\ uncaught = 0
    /\ errorBanners = 0

\* validateField(field) on the field named probe.fieldName holding probe.value
CallValidateField ==
    /\ probe.fn = "validateField"
    /\ ~probeResult.returned
    /\ value' = [value EXCEPT ![probe.fieldName] = probe.value]
    /\ LET r == validateField([errorClass |-> errorClass, messages |-> messages],
                              layout, value', probe.fieldName)
       IN /\ errorClass' = r.dom.errorClass
          /\ messages' = r.dom.messages
          /\ probeResult' = [returned |-> TRUE, isValid |-> r.isValid]
    /\ UNCHANGED <<layout, storage, persistenceWired, submitDisabled, submitLabel,
                   timers, successBanners, locationHref, lastEvent, probe>>
    /\ UNCHANGED siteVars

\* isValidEmail(probe.value)
CallIsValidEmail ==
    /\ probe.fn = "isValidEmail"
    /\ ~probeResult.returned
    /\ probeResult' = [returned |-> TRUE, isValid |-> isValidEmail(probe.value)]
    /\ UNCHANGED <<formVars, probe>>
    /\ UNCHANGED siteVars

NextValidators == CallValidateField \/ CallIsValidEmail

SpecValidators == InitValidators /\ [][NextValidators]_vars

----------------------------------------------------------------------------
(* The advice and home pages: filter controls, search box, cards *)

\* a variant that leaves the 'active' class on the links that carry it
FilterClickKeepsActive(i) ==
    /\ i \in 1..Len(filterLinks)
    /\ ~navigationThrows(present)
    /\ activeFilter' = activeFilter \cup {i}
    /\ cardState' = filterAdviceCards(toLowerCase(filterLinks[i]), cards, cardState)
    /\ lastEvent' = IF lastEvent \in {"filter", "filterAgain"} /\ activeFilter = {i}
                    THEN "filterAgain" ELSE "filter"
    /\ UNCHANGED <<formVarsButEvent, probe, probeResult, cards, filterLinks, searchValue,
                   menuShown, present, uncaught, errorBanners, zoomVars>>

\* a click on the i-th '.filters a' link: the handler marks that link alone
\* active and filters the advice cards by its lower-cased text.  The position
\* records whether the click repeats the filter applied by the previous event.
FilterClick(i) ==
    /\ i \in 1..Len(filterLinks)
    /\ ~navigationThrows(present)
    /\ activeFilter' = {i}
    /\ cardState' = filterAdviceCards(toLowerCase(filterLinks[i]), cards, cardState)
    /\ lastEvent' = IF lastEvent \in {"filter", "filterAgain"} /\ activeFilter = {i}
                    THEN "filterAgain" ELSE "filter"
    /\ UNCHANGED <<formVarsButEvent, probe, probeResult, cards, filterLinks, searchValue,
                   menuShown, present, uncaught, errorBanners, zoomVars>>

\* an input event in the search box, whose value has become v
SearchInput(v) ==
    /\ "searchInput" \in present
    /\ ~navigationThrows(present)
    /\ v # searchValue
    /\ searchValue' = v
    /\ cardState' = searchContent(toLowerCase(v), cards, cardState)
    /\ lastEvent' = "search"
    /\ UNCHANGED <<formVarsButEvent, probe, probeResult, cards, filterLinks, activeFilter,
                   menuShown, present, uncaught, errorBanners, zoomVars>>

\* the IntersectionObserver callback of initializeAnimations for card i, which
\* has scrolled into view: 'fade-in' is added and the card is unobserved
IntersectionObserved(i) ==
    /\ i \in 1..Len(cards)
    /\ ~navigationThrows(present)
    /\ cardState[i].observed
    /\ cardState[i].display # "none"
    /\ cardState' = [cardState EXCEPT ![i].fadeIn = TRUE, ![i].observed = FALSE]
    /\ lastEvent' = "intersect"
    /\ UNCHANGED <<formVarsButEvent, probe, probeResult, cards, filterLinks, activeFilter,
                   searchValue, menuShown, present, uncaught, errorBanners, zoomVars>>

\* the markup of the advice page's filter controls
FilterMarkups ==
    {<< <<"A", "l", "l">>,
        <<"B", "u", "y", "i", "n", "g", " ", "A", "d", "v", "i", "c", "e">>,
        <<"T", "r", "o", "u", "b", "l", "e", "s", "h", "o", "o", "t", "i", "n", "g">>,
        <<"T", "e", "c", "h", " ", "L", "i", "t", "e", "r", "a", "c", "y">> >>,
     << <<"A", "l", "l">>, <<"O", "t", "h", "e", "r">> >>}

AdviceCard(class, text) == [list |-> "advicecards", className |-> class, textContent |-> text]
HomeCard(text) == [list |-> "cards", className |-> <<>>, textContent |-> text]

\* pages of two advice cards and one home card
CardPages ==
    {<<AdviceCard(tagLaptop, <<"A", "b">>),
       AdviceCard(<<"s", "m", "a", "r", "t">> \o tagPhone, <<"b">>),
       HomeCard(<<"a", "B">>)>>,
     <<AdviceCard(tagTroubleshooting, <<"a", "B">>),
       AdviceCard(tagTechliteracy \o <<" ">> \o tagLaptop, <<"A">>),
       HomeCard(<<"b">>)>>,
     <<AdviceCard(<<>>, <<"B", "a">>),
       AdviceCard(tagTechliteracy, <<"a">>),
       HomeCard(<<"A", "b">>)>>}

SearchAlphabet == {"a", "A", "b"}
SearchValues == BoundedSeq(SearchAlphabet, MaxQueryLen)

AdvicePage == {"header", "navUl", "navLinkHref", "searchInput"}

\* the form-related state of a page without a form
NoForm ==
    /\ layout = ProbeLayout
    /\ storage = EmptyStorage
    /\ value = DefaultValue
    /\ persistenceWired = FALSE
    /\ FreshDom
    /\ probe = NoProbe
    /\ probeResult = NoResult

InitCards ==
    /\ NoForm
    /\ cards \in CardPages
    /\ cardState = FreshCards(cards)
    /\ filterLinks \in FilterMarkups
    /\ present = AdvicePage
    /\ activeFilter = ActiveAtLoad(filterLinks, present)
    /\ searchValue = <<>>
    /\ menuShown = FALSE
    /\ uncaught = 0
    /\ errorBanners = 0
    /\ lastEvent = "load"

NextCards ==
    \/ \E i \in 1..Len(filterLinks) : FilterClick(i)
    \/ \E v \in SearchValues : SearchInput(v)
    \/ \E i \in 1..Len(cards) : IntersectionObserved(i)

SpecCards == InitCards /\ [][NextCards]_vars

----------------------------------------------------------------------------
(* Uncaught errors: a snapshot that does not parse, elements the markup lacks *)

\* the 5000 ms callback of an error listener: errorDiv.remove()
ErrorBannerTimeout ==
    /\ errorBanners > 0
    /\ errorBanners' = errorBanners - 1
    /\ UNCHANGED <<formVars, probe, probeResult, cards, cardState, filterLinks,
                   activeFilter, searchValue, menuShown, present, uncaught, zoomVars>>

\* a click on the mobile menu button that createMobileMenuToggle appended to
\* the header: nav.querySelector('ul').classList.toggle('show')
MenuToggleClick ==
    /\ ~navigationThrows(present)
    /\ IF "navUl" \in present
       THEN /\ menuShown' = ~menuShown
            /\ UNCHANGED <<uncaught, errorBanners>>
       ELSE /\ uncaught < MaxErrors
            /\ uncaught' = uncaught + 1
            /\ errorBanners' = BannersAfterError(errorBanners)
            /\ UNCHANGED menuShown
    /\ lastEvent' = "menu"
    /\ UNCHANGED <<formVarsButEvent, probe, probeResult, cards, cardState, filterLinks,
                   activeFilter, searchValue, present, zoomVars>>

\* entries under the form's key that are not the JSON text of an object: one
\* cut short, and the text null (JSON.parse accepts it, Object.keys throws on it)
MalformedSnapshots ==
    {<<"{", "\"", "d", "e", "v", "i", "c", "e", "\"", ":", "\"", "p", "h">>,
     <<"n", "u", "l", "l">>}

MalformedStorages(lay) ==
    {EmptyStorage} \cup
    {setItem(EmptyStorage, formId(lay), text) : text \in MalformedSnapshots}

\* the form page loaded over absent or malformed data
InitMalformed ==
    /\ layout = ProbeLayout
    /\ storage \in MalformedStorages(layout)
    /\ present = FormPage
    /\ LET page == DOMContentLoaded(layout, storage, present)
       IN /\ value = page.value
          /\ persistenceWired = page.persistenceWired
          /\ uncaught = (IF page.threw THEN 1 ELSE 0)
          /\ errorBanners = (IF page.threw THEN BannersAfterError(0) ELSE 0)
    /\ FreshDom
    /\ NoCards
    /\ lastEvent = "load"
    /\ probe = NoProbe
    /\ probeResult = NoResult

\* the form page whose markup wraps the device field alone
InitNested ==
    /\ layout = NestedLayout
    /\ storage = EmptyStorage
    /\ LET page == PageLoaded(layout, storage)
       IN /\ value = page.value
          /\ persistenceWired = page.persistenceWired
    /\ FreshDom
    /\ lastEvent = "load"
    /\ probe = NoProbe
    /\ probeResult = NoResult
    /\ NoCards
    /\ present = FormPage
    /\ uncaught = 0
    /\ errorBanners = 0

SpecNested == InitNested /\ [][Next]_vars

NextMalformed == Next \/ ErrorBannerTimeout

SpecMalformed == InitMalformed /\ [][NextMalformed]_vars

\* pages that lack one of the elements the script queries: the advice page
\* without cards, without filter links, without search box; a page whose nav
\* holds no list; a page with a nav link without href; the form page whose
\* form has no button[type="submit"]
MissingMarkups ==
    {[cards |-> <<>>, present |-> AdvicePage,
      filterLinks |-> << <<"A", "l", "l">>, <<"O", "t", "h", "e", "r">> >>],
     [cards |-> <<AdviceCard(tagLaptop, <<"a">>), HomeCard(<<"b">>)>>,
      present |-> AdvicePage, filterLinks |-> <<>>],
     [cards |-> <<AdviceCard(tagLaptop, <<"a">>), HomeCard(<<"b">>)>>,
      present |-> AdvicePage \ {"searchInput"},
      filterLinks |-> << <<"A", "l", "l">>, <<"O", "t", "h", "e", "r">> >>],
     [cards |-> <<>>, present |-> {"header", "navLinkHref"}, filterLinks |-> <<>>],
     [cards |-> <<>>, present |-> {"header", "navUl"}, filterLinks |-> <<>>],
     [cards |-> <<>>, present |-> FormPage \ {"submitButton"}, filterLinks |-> <<>>]}

InitMissing ==
    /\ \E m \in MissingMarkups :
          /\ cards = m.cards
          /\ filterLinks = m.filterLinks
          /\ present = m.present
    /\ layout = ProbeLayout
    /\ storage = EmptyStorage
    /\ LET page == DOMContentLoaded(layout, storage, present)
       IN /\ value = page.value
          /\ persistenceWired = page.persistenceWired
          /\ uncaught = (IF page.threw THEN 1 ELSE 0)
          /\ errorBanners = (IF page.threw THEN BannersAfterError(0) ELSE 0)
    /\ FreshDom
    /\ cardState = FreshCards(cards)
    /\ activeFilter = ActiveAtLoad(filterLinks, present)
    /\ searchValue = <<>>
    /\ menuShown = FALSE
    /\ lastEvent = "load"
    /\ probe = NoProbe
    /\ probeResult = NoResult

\* the form's listeners exist on the page that holds the form
NextMissing ==
    \/ /\ validationWired(present)
       /\ \/ \E field \in Fields : \E v \in FieldValues(field) : InputEvent(field, v)
          \/ \E field \in Fields : BlurEvent(field)
          \/ SubmitEvent
    \/ \E i \in 1..Len(filterLinks) : FilterClick(i)
    \/ \E v \in SearchValues : SearchInput(v)
    \/ \E i \in 1..Len(cards) : IntersectionObserved(i)
    \/ MenuToggleClick
    \/ ErrorBannerTimeout
    \/ Reload

SpecMissing == InitMissing /\ [][NextMissing]_vars

----------------------------------------------------------------------------
(* The outbound e-mail: createEmailContent and createMailtoURL, which only   *)
(* the earlier declaration of submitForm (script.js:319-358) calls          *)

\* the characters encodeURIComponent escapes, among those of the texts below,
\* and their UTF-8 percent codes; letters, digits and - _ . ! ~ * ' ( ) pass
PercentCode ==
    (" " :> <<"%", "2", "0">>) @@ ("\n" :> <<"%", "0", "A">>) @@ (":" :> <<"%", "3", "A">>)
    @@ ("/" :> <<"%", "2", "F">>) @@ ("@" :> <<"%", "4", "0">>) @@ ("\"" :> <<"%", "2", "2">>)
    @@ ("," :> <<"%", "2", "C">>)

RECURSIVE encodeURIComponent(_)
\* character by character; the string is halved so that long texts are
\* computed in shallow recursion
encodeURIComponent(s) ==
    IF s = <<>> THEN <<>>
    ELSE IF Len(s) = 1
         THEN IF s[1] \in DOMAIN PercentCode THEN PercentCode[s[1]] ELSE s
    ELSE encodeURIComponent(SubSeq(s, 1, Len(s) \div 2))
         \o encodeURIComponent(SubSeq(s, Len(s) \div 2 + 1, Len(s)))

RECURSIVE join(_, _)
\* Array.prototype.join
join(strings, separator) ==
    IF strings = <<>> THEN <<>>
    ELSE IF Len(strings) = 1 THEN strings[1]
    ELSE strings[1] \o separator \o join(Tail(strings), separator)

\* the recipients array of submitForm
recipients ==
    << <<"4", "4", "4", "m", "w", "a", "n", "g", "i", "a", "l", "v", "i", "n", "m", "@",
        "g", "m", "a", "i", "l", ".", "c", "o", "m">>,
      <<"t", "e", "c", "h", ".", "m", "a", "r", "v", "a", "l", ".", "i", "n", "n", "o",
        "v", "a", "t", "i", "o", "n", "s", "@", "g", "m", "a", "i", "l", ".", "c", "o",
        "m">> >>

Anonymous ==
    <<"A", "n", "o", "n", "y", "m", "o", "u", "s">>
NoEmailProvided ==
    <<"N", "o", " ", "e", "m", "a", "i", "l", " ", "p", "r", "o", "v", "i", "d", "e",
      "d">>

\* the data object of submitForm: formData.get(...) || default for name and
\* email, the raw values of device and question
SubmittedData(vals) ==
    [name     |-> IF vals["name"] # <<>> THEN vals["name"] ELSE Anonymous,
     email    |-> IF vals["email"] # <<>> THEN vals["email"] ELSE NoEmailProvided,
     device   |-> vals["device"],
     question |-> vals["question"]]

\* the pieces of the template literal of createEmailContent
TemplateHead ==
    <<"\n", "T", "e", "c", "h", "F", "i", "x", " ", "Q", "u", "e", "s", "t", "i", "o",
      "n", " ", "S", "u", "b", "m", "i", "s", "s", "i", "o", "n", "\n", "\n", "N", "a",
      "m", "e", ":", " ">>
TemplateEmail ==
    <<"\n", "E", "m", "a", "i", "l", ":", " ">>
TemplateDevice ==
    <<"\n", "D", "e", "v", "i", "c", "e", " ", "T", "y", "p", "e", ":", " ">>
TemplateQuestion ==
    <<"\n", "\n", "Q", "u", "e", "s", "t", "i", "o", "n", "/", "I", "s", "s", "u", "e",
      ":", "\n">>
TemplateDate ==
    <<"\n", "\n", "-", "-", "-", "\n", "S", "u", "b", "m", "i", "t", "t", "e", "d",
      " ", "v", "i", "a", " ", "T", "e", "c", "h", "F", "i", "x", " ", "A", "d", "v",
      "i", "s", "o", "r", " ", "w", "e", "b", "s", "i", "t", "e", "\n", "D", "a", "t",
      "e", ":", " ">>
TemplateTime ==
    <<"\n", "T", "i", "m", "e", ":", " ">>
TemplateTail ==
    <<"\n", " ", " ", " ", " ">>

\* what new Date().toLocaleDateString() and toLocaleTimeString() may return
LocaleDates == {<<"1", "/", "2", "/", "2", "0", "2", "6">>}
LocaleTimes == {<<"9", ":", "0", "5", ":", "0", "0", " ", "A", "M">>, <<"9", ":", "0", "5", ":", "0", "1", " ", "A", "M">>}

\* createEmailContent(data), with the two strings read from the clock
createEmailContent(data, date, time) ==
    Trim(TemplateHead \o data.name \o TemplateEmail \o data.email
         \o TemplateDevice \o data.device \o TemplateQuestion \o data.question
         \o TemplateDate \o date \o TemplateTime \o time \o TemplateTail)

MailSubject ==
    <<"T", "e", "c", "h", "F", "i", "x", " ", "Q", "u", "e", "s", "t", "i", "o", "n",
      " ", "S", "u", "b", "m", "i", "s", "s", "i", "o", "n">>
MailtoScheme ==
    <<"m", "a", "i", "l", "t", "o", ":">>
SubjectParameter ==
    <<"?", "s", "u", "b", "j", "e", "c", "t", "=">>
BodyParameter ==
    <<"&", "b", "o", "d", "y", "=">>

\* createMailtoURL(recipients, content)
createMailtoURL(rcpts, content) ==
    LET recipientList == join(rcpts, <<",">>)
        subject == encodeURIComponent(MailSubject)
        body == encodeURIComponent(content)
    IN MailtoScheme \o recipientList \o SubjectParameter \o subject \o BodyParameter \o body

----------------------------------------------------------------------------
(* A site whose pages hold different forms, all in one origin's localStorage *)

\* the forms of the site, one per page: the two id-less markups of Layouts and
\* a form that carries an id attribute
SiteForms ==
    Layouts \cup {[required |-> {}, parent |-> SharedParent, id |-> "contact-form"]}

\* the user follows a link to the page that holds the form `lay`: the old
\* document and its timers are gone, the DOMContentLoaded handler runs against
\* the new markup, localStorage is the same
Navigate(lay) ==
    /\ lay # layout
    /\ layout' = lay
    /\ LET page == DOMContentLoaded(lay, storage, present)
       IN /\ value' = page.value
          /\ persistenceWired' = page.persistenceWired
          /\ uncaught' = IF page.threw THEN 1 ELSE 0
          /\ errorBanners' = IF page.threw THEN BannersAfterError(0) ELSE 0
    /\ errorClass' = [f \in Fields |-> FALSE]
    /\ messages' = [f \in Fields |-> <<>>]
    /\ submitDisabled' = FALSE
    /\ submitLabel' = OriginalLabel
    /\ timers' = <<>>
    /\ successBanners' = 0
    /\ locationHref' = PageHref
    /\ modals' = 0
    /\ bodyOverflow' = ""
    /\ lastEvent' = "navigate"
    /\ UNCHANGED <<storage, probe, probeResult, cards, cardState, filterLinks,
                   activeFilter, searchValue, menuShown, present>>

InitSite ==
    /\ layout \in SiteForms
    /\ storage = EmptyStorage
    /\ LET page == PageLoaded(layout, storage)
       IN /\ value = page.value
          /\ persistenceWired = page.persistenceWired
    /\ FreshDom
    /\ lastEvent = "load"
    /\ probe = NoProbe
    /\ probeResult = NoResult
    /\ NoCards
    /\ present = FormPage
    /\ uncaught = 0
    /\ errorBanners = 0

NextSite ==
    \/ \E field \in Fields : \E v \in FieldValues(field) : InputEvent(field, v)
    \/ SubmitEvent
    \/ SubmitTimeout
    \/ BannerTimeout
    \/ \E lay \in SiteForms : Navigate(lay)

SpecSite == InitSite /\ [][NextSite]_vars

----------------------------------------------------------------------------
(* The form page while its document lives: no reload, timers always fire *)

NextLive ==
    \/ \E field \in Fields : \E v \in FieldValues(field) : InputEvent(field, v)
    \/ \E field \in Fields : BlurEvent(field)
    \/ SubmitEvent
    \/ SubmitTimeout
    \/ BannerTimeout

\* a setTimeout callback of a living document runs once its delay has elapsed
Fairness == WF_vars(SubmitTimeout) /\ WF_vars(BannerTimeout)

\* the form page with the required attributes, loaded over an empty storage or
\* over a snapshot
InitLive ==
    /\ layout = ProbeLayout
    /\ storage \in InitStorages(layout)
    /\ LET page == PageLoaded(layout, storage)
       IN /\ value = page.value
          /\ persistenceWired = page.persistenceWired
    /\ FreshDom
    /\ lastEvent = "load"
    /\ probe = NoProbe
    /\ probeResult = NoResult
    /\ NoCards
    /\ present = FormPage
    /\ uncaught = 0
    /\ errorBanners = 0

SpecLive == InitLive /\ [][NextLive]_vars /\ Fairness

\* the living form page, with submit events arriving during a submission's delay
NextResubmit ==
    \/ \E field \in Fields : \E v \in FieldValues(field) : InputEvent(field, v)
    \/ \E field \in Fields : BlurEvent(field)
    \/ SubmitEventBounded(MaxTimersResubmit)
    \/ SubmitTimeout
    \/ BannerTimeout

SpecResubmit == InitLive /\ [][NextResubmit]_vars

----------------------------------------------------------------------------
(* The advice page's image zoom *)

\* document.querySelectorAll('.advicecards img'): one image in each advice card
zoomImages(cs) == adviceCards(cs)

\* a click event on the image of card i: createImageModal appends a modal to
\* the body and hides the body's overflow.  The handler looks at no modal that
\* may be open already.
ImageClick(i) ==
    /\ i \in zoomImages(cards)
    /\ ~navigationThrows(present)
    /\ cardState[i].display # "none"
    /\ modals < MaxModals
    /\ modals' = modals + 1
    /\ bodyOverflow' = "hidden"
    /\ lastEvent' = "zoom"
    /\ UNCHANGED <<formVarsButEvent, probe, probeResult, cards, cardState, filterLinks,
                   activeFilter, searchValue, menuShown, present, uncaught, errorBanners>>

\* a click on a modal (or on the enlarged image in it): this.remove() and the
\* body's overflow set to 'auto'
ModalClick ==
    /\ modals > 0
    /\ modals' = modals - 1
    /\ bodyOverflow' = "auto"
    /\ lastEvent' = "unzoom"
    /\ UNCHANGED <<formVarsButEvent, probe, probeResult, cards, cardState, filterLinks,
                   activeFilter, searchValue, menuShown, present, uncaught, errorBanners>>

NextZoom ==
    \/ \E i \in 1..Len(cards) : ImageClick(i)
    \/ ModalClick
    \/ \E i \in 1..Len(filterLinks) : FilterClick(i)
    \/ \E v \in SearchValues : SearchInput(v)

SpecZoom == InitCards /\ [][NextZoom]_vars

----------------------------------------------------------------------------
(* Pages on which the first initializer fails *)

\* the form page and an advice page, each with and without a header element
HeaderMarkups ==
    {[cards |-> <<>>, present |-> FormPage, filterLinks |-> <<>>],
     [cards |-> <<>>, present |-> FormPage \ {"header"}, filterLinks |-> <<>>],
     [cards |-> <<AdviceCard(tagLaptop, <<"a">>), HomeCard(<<"b">>)>>,
      present |-> AdvicePage,
      filterLinks |-> << <<"A", "l", "l">>, <<"O", "t", "h", "e", "r">> >>],
     [cards |-> <<AdviceCard(tagLaptop, <<"a">>), HomeCard(<<"b">>)>>,
      present |-> AdvicePage \ {"header"},
      filterLinks |-> << <<"A", "l", "l">>, <<"O", "t", "h", "e", "r">> >>]}

InitHeader ==
    /\ \E m \in HeaderMarkups :
          /\ cards = m.cards
          /\ filterLinks = m.filterLinks
          /\ present = m.present
    /\ layout = ProbeLayout
    /\ storage = EmptyStorage
    /\ LET page == DOMContentLoaded(layout, storage, present)
       IN /\ value = page.value
          /\ persistenceWired = page.persistenceWired
          /\ uncaught = (IF page.threw THEN 1 ELSE 0)
          /\ errorBanners = (IF page.threw THEN BannersAfterError(0) ELSE 0)
    /\ FreshDom
    /\ cardState = FreshCards(cards)
    /\ activeFilter = ActiveAtLoad(filterLinks, present)
    /\ searchValue = <<>>
    /\ menuShown = FALSE
    /\ lastEvent = "load"
    /\ probe = NoProbe
    /\ probeResult = NoResult

SpecHeader == InitHeader /\ [][NextMissing]_vars

----------------------------------------------------------------------------
(* Claims *)

\* the positions of s that hold no white space
Inked(s) == {i \in 1..Len(s) : s[i] \notin WhiteSpace}
Lowest(S) == CHOOSE i \in S : \A j \in S : i <= j
Highest(S) == CHOOSE i \in S : \A j \in S : i >= j
\* s without its leading and trailing white space, by position
Trimmed(s) == IF Inked(s) = {} THEN <<>> ELSE SubSeq(s, Lowest(Inked(s)), Highest(Inked(s)))

\* the form local@domain.tld: no white space, exactly one '@', something before
\* it, and after it a '.' that is neither the first nor the last character
LocalAtDomainTld(s) ==
    LET ats == {i \in 1..Len(s) : s[i] = "@"}
    IN /\ Inked(s) = 1..Len(s)
       /\ Cardinality(ats) = 1
       /\ \E at \in ats :
            /\ at > 1
            /\ \E dot \in (at + 2)..(Len(s) - 1) : s[dot] = "."

PassExpected(fieldName, trimmed) ==
    CASE fieldName = "name"     -> Len(trimmed) = 0 \/ Len(trimmed) >= 2
      [] fieldName = "email"    -> Len(trimmed) = 0 \/ isValidEmail(trimmed)
      [] fieldName = "device"   -> Len(trimmed) # 0
      [] fieldName = "question" -> Len(trimmed) >= 10

\* C1: validateField returns pass exactly when the trimmed value is, for name,
\* empty or at least 2 characters long; for email, empty or accepted by
\* isValidEmail; for device, non-empty; for question, at least 10 characters long.
C1_ValidateFieldRules ==
    (probe.fn = "validateField" /\ probeResult.returned)
        => (probeResult.isValid = PassExpected(probe.fieldName, Trimmed(probe.value)))

\* a question of exactly 10 characters behind a leading blank has passed
C1_Witness ==
    /\ probe.fn = "validateField"
    /\ probe.fieldName = "question"
    /\ Len(probe.value) = 11
    /\ Inked(probe.value) = 2..11
    /\ probeResult.returned
    /\ probeResult.isValid

\* C2: isValidEmail accepts a string exactly when it has the form
\* local@domain.tld; it accepts "a@b.c" and rejects "a b@c", "a@b", "a@b." and "@b.c".
C2_IsValidEmailForm ==
    (probe.fn = "isValidEmail" /\ probeResult.returned)
        => /\ probeResult.isValid = LocalAtDomainTld(probe.value)
           /\ probe.value = AtBDotC => probeResult.isValid
           /\ probe.value \in RejectedExamples => ~probeResult.isValid

\* isValidEmail has returned on "a@b." and rejected it
C2_Witness ==
    /\ probe.fn = "isValidEmail"
    /\ probe.value = <<"a", "@", "b", ".">>
    /\ probeResult.returned
    /\ ~probeResult.isValid

CurrentDom == [errorClass |-> errorClass, messages |-> messages]
Rejected(f) == ~validateFieldResult(f, value[f]).isValid
\* the step is a call of submitForm: it starts a delay timer
SubmitFormCalled == Len(timers') > Len(timers)

\* C3: a submit event on a form in which the name, email, device or question
\* field holds a value its validator rejects does not call submitForm.
C3_NoSubmitWithRejectedField ==
    [][(SubmitEvent /\ \E f \in Fields : Rejected(f)) => ~SubmitFormCalled]_vars

\* C4: a submit event whose validation fails leaves the submit control, the
\* timers, the banners and the field values as they were, and every field whose
\* validation failed shows its error message when the handler returns.
C4_FailedSubmitAborts ==
    [][(SubmitEvent /\ ~validateForm(CurrentDom, layout, value).isFormValid)
         => /\ UNCHANGED <<submitDisabled, submitLabel, timers, successBanners, value>>
            /\ \A i \in 1..Len(FieldsValidatedOnSubmit(layout)) :
                 LET f == FieldsValidatedOnSubmit(layout)[i]
                 IN Rejected(f) => messages'[f] # <<>>]_vars

Recipients == <<"444mwangialvinm@gmail.com", "tech.marval.innovations@gmail.com">>

\* C5: when the delay of a submission that passed validation has elapsed, the
\* browser is sent to a mailto: link addressed to the two fixed recipients.
C5_MailtoAfterDelay ==
    [][SubmitTimeout
         => locationHref'.scheme = "mailto" /\ locationHref'.recipients = Recipients]_vars

\* C6: in a submission that passed validation the control is disabled and marked
\* busy first, and the snapshot is cleared only once the delay has elapsed, in the
\* step that shows the banner and resets the form.
C6_SubmissionOrder ==
    [][/\ (SubmitEvent /\ SubmitFormCalled)
            => /\ submitDisabled' /\ submitLabel' = BusyLabel
               /\ storage' = storage
       /\ SubmitTimeout
            => /\ successBanners' = successBanners + 1
               /\ ~hasItem(storage', formId(layout))
               /\ value' = DefaultValue]_vars

\* C7: after a submission has completed, storage holds no entry under the
\* form's identifier and every field shows its default (empty) value.
C7_CompletedSubmissionClears ==
    lastEvent = "submitTimeout"
        => ~hasItem(storage, formId(layout)) /\ value = DefaultValue

\* C8: the snapshot is deleted on a successful submit and only then; a submit
\* event whose validation fails leaves the stored snapshot unchanged.
C8_SnapshotDeletedOnlyOnSuccess ==
    [][/\ (SubmitEvent /\ ~validateForm(CurrentDom, layout, value).isFormValid)
            => storage' = storage
       /\ (hasItem(storage, formId(layout)) /\ ~hasItem(storage', formId(layout)))
            => (SubmitEvent /\ validateForm(CurrentDom, layout, value).isFormValid)]_vars

\* every mapping of some of the form's field names to values of those fields
SnapshotsOver(keys) ==
    {v \in [keys -> UNION {FieldValues(f) : f \in Fields}] :
        \A f \in keys : v[f] \in FieldValues(f)}
Snapshots == UNION {SnapshotsOver(keys) : keys \in SUBSET Fields}
\* the entries of a form whose named fields are DOMAIN v and hold v
EntriesOf(v) ==
    LET named == SelectSeq(FieldOrder, LAMBDA f : f \in DOMAIN v)
    IN [i \in 1..Len(named) |-> <<NameChars(named[i]), v[named[i]]>>]

\* C9: when the page is loaded with the snapshot saveFormData writes for a form
\* holding v, every field whose name is a key of v shows exactly v's value and
\* every other field keeps its default value.
C9_SnapshotRoundTrip ==
    lastEvent = "load"
        => \A v \in Snapshots :
              (/\ hasItem(storage, formId(layout))
               /\ storage[formId(layout)] = JSONstringify(EntriesOf(v)))
              => /\ \A f \in DOMAIN v : value[f] = v[f]
                 /\ \A f \in Fields \ DOMAIN v : value[f] = DefaultValue[f]

\* the page was reloaded over a snapshot of all four fields, whose question
\* holds quotation marks, and shows it
C9_Witness ==
    /\ lastEvent = "load"
    /\ hasItem(storage, formId(layout))
    /\ storage[formId(layout)] = JSONstringify(FormDataEntries(value))
    /\ value["question"] = QuotedItSlows
    /\ value["name"] = <<"a">>

AppliedLabel == toLowerCase(filterLinks[CHOOSE i \in activeFilter : TRUE])
FilterApplied == lastEvent \in {"filter", "filterAgain"}
\* the classes the markup gives card i
Tagged(i, tag) == Includes(cards[i].className, tag)
\* the label-to-class mapping as documented
ShownUnder(label, i) ==
    CASE label = <<"a", "l", "l">> -> TRUE
      [] label = labelBuyingAdvice -> Tagged(i, tagLaptop) \/ Tagged(i, tagPhone)
      [] label = labelTroubleshooting -> Tagged(i, tagTroubleshooting)
      [] label = labelTechLiteracy -> Tagged(i, tagTechliteracy)
      [] OTHER -> FALSE

\* C11: after filterAdviceCards(label, cards) a card is visible exactly when the
\* label is "all" or the label's classes (buying advice: laptop or phone;
\* troubleshooting: troubleshooting; tech literacy: techliteracy) occur in the
\* card's class; every other card, and every card under any other label, is hidden.
C11_FilterMapping ==
    FilterApplied
        => \A i \in adviceCards(cards) :
              cardState[i].display = (IF ShownUnder(AppliedLabel, i) THEN "block" ELSE "none")

\* "buying advice" has been applied to a page with a card of class smartphone,
\* which a search had hidden and which is shown again
C11_Witness ==
    /\ FilterApplied
    /\ AppliedLabel = labelBuyingAdvice
    /\ searchValue = <<"b", "b">>
    /\ \E i \in adviceCards(cards) :
          /\ ~Tagged(i, tagLaptop) /\ Tagged(i, tagPhone)
          /\ cardState[i].display = "block"

\* C12: a click that applies the category the previous event applied leaves the
\* visible set, the fade-in marking and the active control as they were.
C12_FilterIdempotent ==
    [][\A i \in 1..Len(filterLinks) :
          (FilterClick(i) /\ lastEvent' = "filterAgain")
              => UNCHANGED <<cardState, activeFilter>>]_vars

\* a category that hides one advice card and shows another was applied twice
C12_Witness ==
    /\ lastEvent = "filterAgain"
    /\ \E i, j \in adviceCards(cards) :
          /\ cardState[i].display = "none" /\ ~cardState[i].fadeIn
          /\ cardState[j].display = "block" /\ cardState[j].fadeIn

\* C13: after the "all" filter has been applied every card handed to the filter
\* (the advice cards) is shown, whatever its class and whatever filters or
\* searches hid before.
C13_AllShowsEveryCard ==
    (FilterApplied /\ AppliedLabel = labelAll)
        => \A i \in adviceCards(cards) : cardState[i].display = "block"

\* "all" was applied while the search box holds a query that matches no card
\* and had hidden them all; an untagged advice card is among those shown
C13_Witness ==
    /\ FilterApplied
    /\ AppliedLabel = labelAll
    /\ searchValue = <<"b", "b">>
    /\ \E i \in adviceCards(cards) :
          cards[i].className = <<>> /\ cardState[i].display = "block"

\* the same letter, whatever its case
SameLetter(c, d) == c = d \/ {c, d} \in {{"a", "A"}, {"b", "B"}}
\* text contains q as a substring, compared case-insensitively
ContainsIgnoringCase(text, q) ==
    \E o \in 0..(Len(text) - Len(q)) : \A k \in 1..Len(q) : SameLetter(text[o + k], q[k])

\* C14: after an input event in the search box with query q, a searchable card
\* is visible exactly when its text contains q, compared case-insensitively.
C14_SearchVisibility ==
    lastEvent = "search"
        => \A i \in 1..Len(cards) :
              cardState[i].display
                  = (IF ContainsIgnoringCase(cards[i].textContent, searchValue)
                     THEN "block" ELSE "none")

\* the query "ab" shows a card whose text is "Ab" and hides another card
C14_Witness ==
    /\ lastEvent = "search"
    /\ searchValue = <<"a", "b">>
    /\ \E i, j \in 1..Len(cards) :
          /\ cards[i].textContent = <<"A", "b">> /\ cardState[i].display = "block"
          /\ cardState[j].display = "none"

\* the entry under the form's identifier is absent, empty or not the JSON text
\* of an object
AbsentOrMalformed ==
    \/ ~hasItem(storage, formId(layout))
    \/ ~JSONparse(storage[formId(layout)]).ok

\* C15: a page load that finds absent or malformed data under the form's
\* identifier changes no field, raises no error and registers the input-save
\* and submit-clear listeners, so that the next keystroke overwrites the entry.
C15_MalformedSkipsPopulation ==
    /\ (lastEvent = "load" /\ AbsentOrMalformed)
          => /\ value = DefaultValue
             /\ uncaught = 0
             /\ persistenceWired
    /\ lastEvent = "input" => ~AbsentOrMalformed

\* C16: on a page that lacks one of the elements the script queries, no
\* initializer and no handler raises an error.
C16_MissingElementsNoOp ==
    (present # OptionalElements \/ cards = <<>> \/ filterLinks = <<>>) => uncaught = 0

\* C17: each uncaught error adds exactly one banner, and a banner leaves only
\* through its own 5 second timer (or with the document).
C17_OneBannerPerError ==
    [][/\ uncaught' = uncaught + 1 => errorBanners' = errorBanners + 1
       /\ errorBanners' < errorBanners => (ErrorBannerTimeout \/ Reload)]_vars

\* C18: when validateField(field) returns fail the field has the error class
\* and exactly one message node next to it; when it returns pass the field has
\* neither the error class nor a message node.
C18_ErrorStateAndMessageTogether ==
    [][\A f \in Fields :
          BlurEvent(f)
              => IF Rejected(f)
                 THEN errorClass'[f] /\ Len(messages'[f]) = 1
                 ELSE ~errorClass'[f] /\ messages'[f] = <<>>]_vars

\* C19: after an input event on a field that shows an error (error class and
\* message), the field has no error class and its message node is gone.
C19_InputClearsOwnError ==
    [][\A f \in Fields :
          (/\ \E v \in FieldValues(f) : InputEvent(f, v)
           /\ errorClass[f]
           /\ messages[f] # <<>>)
              => ~errorClass'[f] /\ messages'[f] = <<>>]_vars

\* the page after the timer callback of the EARLIER declaration of submitForm
\* (script.js:319-358), which assigns the mailto: URL to window.location.href
\* before it shows the banner, resets the form and restores the button
earlierSubmitCallback(ts, banners) ==
    [locationHref   |-> [scheme |-> "mailto", recipients |-> Recipients],
     successBanners |-> banners + 1,
     value          |-> DefaultValue,
     submitDisabled |-> FALSE,
     submitLabel    |-> ts[FirstTimer(ts, "submit")].originalText]

\* C20: the later declaration of each function has the same observable effects
\* as the earlier one; for submitForm, whose declarations are the only ones
\* that differ, the timer callback leaves the page as the earlier one would.
C20_DuplicatesEquivalent ==
    [][SubmitTimeout
         => [locationHref   |-> locationHref',
             successBanners |-> successBanners',
             value          |-> value',
             submitDisabled |-> submitDisabled',
             submitLabel    |-> submitLabel']
            = earlierSubmitCallback(timers, successBanners)]_vars

StartsWith(s, prefix) == Len(s) >= Len(prefix) /\ SubSeq(s, 1, Len(prefix)) = prefix
\* the characters that end or split a component of a URI
UriDelimiters == {" ", "\n", ":", "/", "@", "\"", ",", "&", "?", "=", "#"}
\* the positions of s at which no %XX is cut in two, and the one nearest the middle
CutPoints(s) == {p \in 2..Len(s) : s[p - 1] # "%" /\ (p > 2 => s[p - 2] # "%")}
Distance(a, b) == IF a >= b THEN a - b ELSE b - a
CutPoint(s) ==
    CHOOSE p \in CutPoints(s) :
        \A q \in CutPoints(s) : Distance(p, Len(s) \div 2) <= Distance(q, Len(s) \div 2)
RECURSIVE PercentDecoded(_)
\* s with every %XX replaced by the character it stands for
PercentDecoded(s) ==
    IF Len(s) <= 3
    THEN IF s # <<>> /\ s[1] = "%"
         THEN <<CHOOSE c \in DOMAIN PercentCode : PercentCode[c] = s>>
         ELSE s
    ELSE PercentDecoded(SubSeq(s, 1, CutPoint(s) - 1))
         \o PercentDecoded(SubSeq(s, CutPoint(s), Len(s)))
\* the link up to its body, as documented
MailtoUpToBody ==
    <<"m", "a", "i", "l", "t", "o", ":", "4", "4", "4", "m", "w", "a", "n", "g", "i",
      "a", "l", "v", "i", "n", "m", "@", "g", "m", "a", "i", "l", ".", "c", "o", "m",
      ",", "t", "e", "c", "h", ".", "m", "a", "r", "v", "a", "l", ".", "i", "n", "n",
      "o", "v", "a", "t", "i", "o", "n", "s", "@", "g", "m", "a", "i", "l", ".", "c",
      "o", "m", "?", "s", "u", "b", "j", "e", "c", "t", "=", "T", "e", "c", "h", "F",
      "i", "x", "%", "2", "0", "Q", "u", "e", "s", "t", "i", "o", "n", "%", "2", "0",
      "S", "u", "b", "m", "i", "s", "s", "i", "o", "n", "&", "b", "o", "d", "y", "=">>
NameLine ==
    <<"N", "a", "m", "e", ":", " ">>
EmailLine ==
    <<"E", "m", "a", "i", "l", ":", " ">>
\* the link submitForm builds from the values vals at the clock readings date
\* and time has the documented form and its body holds the documented data
LinkAsDocumented(vals, date, time) ==
    LET body == createEmailContent(SubmittedData(vals), date, time)
        url == createMailtoURL(recipients, body)
        encoded == SubSeq(url, Len(MailtoUpToBody) + 1, Len(url))
    IN /\ StartsWith(url, MailtoUpToBody)
       /\ \A i \in 1..Len(encoded) : encoded[i] \notin UriDelimiters
       /\ PercentDecoded(encoded) = body
       /\ Includes(body, vals["device"])
       /\ Includes(body, vals["question"])
       /\ Includes(body, NameLine \o (IF vals["name"] = <<>> THEN Anonymous ELSE vals["name"])
                              \o <<"\n">>)
       /\ Includes(body, EmailLine \o (IF vals["email"] = <<>> THEN NoEmailProvided
                                       ELSE vals["email"]) \o <<"\n">>)

\* C21: a submission that passed validation opens a link of the form
\* mailto:<recipients>?subject=<encoded>&body=<encoded>: the two recipients joined
\* by a comma, the fixed subject and the body URI-encoded, the body holding the
\* submitted device and question, the name or "Anonymous", the email or
\* "No email provided".
C21_MailtoLink ==
    [][/\ (SubmitEvent /\ SubmitFormCalled)
            => \A date \in LocaleDates, time \in LocaleTimes :
                  LinkAsDocumented(value, date, time)
       /\ SubmitTimeout => locationHref'.scheme = "mailto"]_vars

\* storage without the entry the form `lay` reads and writes
WithoutSnapshotOf(lay) == removeItem(storage, formId(lay))

\* C22: two different forms never use the same storage key, and a snapshot
\* saved from one form is never loaded into another: a form opened right after
\* an input event on a different form shows what it would show had that
\* input's snapshot not been stored.
C22_SnapshotsPerForm ==
    [][\A lay \in SiteForms :
          Navigate(lay)
              => /\ formId(lay) # formId(layout)
                 /\ lastEvent = "input"
                      => value' = loadFormData(WithoutSnapshotOf(layout), DefaultValue,
                                               formId(lay)).value]_vars

\* C23: every submission that has started (control disabled) is eventually
\* followed by its callback, after which the banner is shown, the form is reset
\* and the control is enabled, whatever events arrive in between; and a banner
\* that has just been shown is eventually followed by a banner's removal.
C23_SubmissionCompletes ==
    /\ submitDisabled
          ~> (/\ lastEvent = "submitTimeout"
              /\ successBanners > 0
              /\ value = DefaultValue
              /\ ~submitDisabled)
    /\ (lastEvent = "submitTimeout" /\ successBanners > 0) ~> lastEvent = "bannerTimeout"

\* a submission has completed although an input event during its delay
\* stored a snapshot
C23_Witness ==
    /\ lastEvent = "submitTimeout"
    /\ successBanners = 1
    /\ ~submitDisabled
    /\ hasItem(storage, formId(layout))

\* C24: once a submission's callback has reset the form, storage holds no
\* snapshot under the form's identifier, whatever input events arrived during
\* the delay, and a reload at that point shows the form's default values.
C24_NoStaleSnapshot ==
    [][(Reload /\ lastEvent = "submitTimeout")
          => /\ ~hasItem(storage, formId(layout))
             /\ value' = DefaultValue]_vars

SubmissionPending == FirstTimer(timers, "submit") # 0

\* C25: the submit control is disabled exactly while a submission's delay
\* timer is pending, and once no submission is pending it carries its original
\* label, also when submit events arrived during a delay.
C25_ControlFollowsTimer ==
    /\ submitDisabled <=> SubmissionPending
    /\ ~SubmissionPending => submitLabel = OriginalLabel

\* C26: filter and search do not undo each other: after an input event in the
\* search box every advice card that is visible matches the category of the
\* active filter control (or that category is "all"), so a search never
\* re-shows a card the active filter hides.
C26_SearchKeepsFilter ==
    [][\A v \in SearchValues :
          SearchInput(v)
              => \A i \in adviceCards(cards) :
                    cardState'[i].display # "none" => ShownUnder(AppliedLabel, i)]_vars

\* C27: on a page with at least one filter control exactly one control is
\* marked active in every state: the first one once the page has loaded, and
\* after a click the control that was clicked.
C27_OneActiveFilter ==
    /\ [](filterLinks # <<>>
            => /\ Cardinality(activeFilter) = 1
               /\ lastEvent = "load" => activeFilter = {1})
    /\ [][\A i \in 1..Len(filterLinks) : FilterClick(i) => activeFilter' = {i}]_vars

\* the fourth control is the active one, clicked after others, and a search
\* input has followed
C27_Witness ==
    /\ Len(filterLinks) = 4
    /\ activeFilter = {4}
    /\ lastEvent = "search"
    /\ \E i \in adviceCards(cards) : cardState[i].fadeIn

\* the error class and the message nodes of field g are as they were
FeedbackUnchanged(g) == errorClass'[g] = errorClass[g] /\ messages'[g] = messages[g]
ValidatedOnSubmit ==
    {FieldsValidatedOnSubmit(layout)[i] : i \in 1..Len(FieldsValidatedOnSubmit(layout))}

\* C28: a blur or an input event on a field leaves the error class and the
\* message nodes of every other field as they were, and so does a submit event
\* for the fields it does not validate, whatever parent elements the fields share.
C28_OtherFieldsUntouched ==
    [][/\ \A f \in Fields :
             (BlurEvent(f) \/ \E v \in FieldValues(f) : InputEvent(f, v))
                 => \A g \in Fields \ {f} : FeedbackUnchanged(g)
       /\ SubmitEvent => \A g \in Fields \ ValidatedOnSubmit : FeedbackUnchanged(g)]_vars

\* C29: a click on a modal removes it, and the body's overflow is hidden exactly
\* while at least one zoom modal is in the document.
C29_ScrollLockedWhileModalOpen ==
    /\ [](bodyOverflow = "hidden" <=> modals > 0)
    /\ [][ModalClick => modals' = modals - 1]_vars

\* C30: the initializers are independent: whatever happened in
\* initializeNavigation, on a page with a form the validation and persistence
\* listeners are registered, and on a page with filter controls the filter
\* initializer has run (a control is marked active).
C30_InitializersIndependent ==
    /\ "form" \in present => validationWired(present) /\ persistenceWired
    /\ filterLinks # <<>> => activeFilter # {}

====
